---- MODULE Spec2Model ----
(***************************************************************************)
(* Finvoice 3.0 export / import over Apix (module ahkio_finvoice).         *)
(*                                                                         *)
(*   account_edi_format.py : _post_invoice_edi, _export_finvoice,          *)
(*                           _validate_required_fields, _import_finvoice   *)
(*   ahkio_apix.py         : list_invoice_zips, download,                  *)
(*                           fetch_invoice_zips_for_company,               *)
(*                           fetch_invoice_zips, _calculate_digest         *)
(*                                                                         *)
(* Python values are modelled as follows: an empty Char field (False or    *)
(* '') is the string "", a recordset is a set of records, a list and the   *)
(* bytes of a file are sequences, an ordered dict is a sequence of         *)
(* <<key, value>> pairs, and a raised exception is a record                *)
(* [type, arg].                                                            *)
(***************************************************************************)
EXTENDS Integers, Sequences, FiniteSets, TLC

VARIABLES
    \* ---- shared collaborators
    apix_env,      \* ir.config_parameter ahkio_finvoice.apix_env
    http,          \* the requests each caller has sent to Apix, in order
    attachments,   \* table ir.attachment
    logs,          \* what _logger has written
    \* ---- export: _post_invoice_edi / _export_finvoice
    epc,           \* position of the export batch
    idx,           \* number of invoices of the batch taken so far
    invoice,       \* the invoice being exported (recordset: {} or {inv})
    res,           \* the result dict of _post_invoice_edi, keyed by position
    temp_zip_file, \* the NamedTemporaryFile: [name, content, pos]
    response,      \* the response of requests.put (sequence: <<>> or <<r>>)
    template_values, \* the values handed to the Finvoice template (<<>> or <<v>>)
    eraised,       \* exception that left _post_invoice_edi (<<>> or <<exc>>)
    \* ---- import: sweeps and download
    pc,            \* position of each caller
    user,          \* each caller's environment: [company, su]
    comps,         \* fetch_invoice_zips: the companies to sweep
    ci,            \* fetch_invoice_zips: index of the company being swept
    files,         \* fetch_invoice_zips_for_company: the received descriptors
    k,             \* fetch_invoice_zips_for_company: index of the file
    filter,        \* download: the storage_status argument
    ret,           \* what the last download / import call returned
    raised,        \* exception that left the caller's entry point
    invoices,      \* table account.move (imported invoices)
    storage,       \* Apix side: StorageStatus and company of each StorageID
    received,      \* the response to each caller's last request (<<>> or <<r>>)
    tree           \* the parsed XML handed to _import_finvoice

shared_vars == <<apix_env, http, attachments, logs>>
export_vars == <<epc, idx, invoice, res, temp_zip_file, response, template_values, eraised>>
import_vars == <<pc, user, comps, ci, files, k, filter, ret, raised, invoices, storage, received, tree>>
vars == <<shared_vars, export_vars, import_vars>>

(***************************************************************************)
(* Bounds.                                                                 *)
(***************************************************************************)
BatchSize == 2     \* invoices handed to _post_invoice_edi
MaxMissing == 1    \* empty mandatory fields of an invoice of an export batch
MaxFiles == 2      \* StorageIDs known to Apix
MaxLines == 3      \* invoice lines of an exported invoice

(***************************************************************************)
(* Python helpers.                                                         *)
(***************************************************************************)
\* the one record of a singleton recordset
One(rs) == CHOOSE r \in rs : TRUE

\* str.replace on a string kept as a sequence of tokens
Replace(s, old, new) == [i \in 1..Len(s) |-> IF s[i] = old THEN new ELSE s[i]]

\* file.read(): the bytes from the position to the end
Read(f) == SubSeq(f.content, f.pos + 1, Len(f.content))

\* the file after read(): the position is at the end
AfterRead(f) == [f EXCEPT !.pos = Len(f.content)]

\* the values of an ordered dict, in insertion order
Values(params) == [i \in 1..Len(params) |-> params[i][2]]

\* the keys of an ordered dict, in insertion order
Keys(params) == [i \in 1..Len(params) |-> params[i][1]]

\* datetime.now().strftime('%Y%m%d%H%M%S')
Now == "20260101120000"

\* '+'.join(values + [key]), sha256, hexdigest, 'SHA-256:' prefix; the hash is
\* kept symbolic (its input), so that distinct inputs give distinct digests
CalculateDigest(params, key) ==
    [prefix |-> "SHA-256:", sha256_of |-> Append(Values(params), key)]

\* self._apix_env() == 'test' selects the test host
Url(env, test_url, prod_url) == IF env = "test" THEN test_url ELSE prod_url

(***************************************************************************)
(* Export: the invoices.                                                   *)
(***************************************************************************)
SenderPartners ==
    [bank_ids : {{}, {"FI2112345600000785"}},
     ahkio_organisation_unit_number : {"", "003712345678"},
     ahkio_e_invoice_address : {"", "003712345678"},
     ahkio_e_invoice_intermediator : {"", "BAWCFI22"}]

SenderCompanies ==
    [company_registry : {"", "1234567-8"},
     ahkio_apix_transfer_id : {"", "TRA-1"},
     ahkio_apix_transfer_key : {"", "KEY-1"},
     partner_id : SenderPartners]

Recipients ==
    [ahkio_company_registry : {"", "7654321-0"},
     ahkio_organisation_unit_number : {"", "003776543210"},
     ahkio_e_invoice_address : {"", "003776543210"},
     ahkio_e_invoice_intermediator : {"", "HELSFIHH"}]

ShippingContacts ==
    [ahkio_company_registry : {"", "2222222-2"},
     ahkio_organisation_unit_number : {"", "003722222222"}]

\* an invoice: partner_shipping_id is a field only when the sale module adds it
\* (_fields), and then is an empty or a singleton recordset
InvoiceShapes ==
    [_fields : {{"partner_shipping_id"}},
     partner_shipping_id : {{}} \cup {{s} : s \in ShippingContacts}]
    \cup [_fields : {{}}, partner_shipping_id : {{}}]

AllInvoices ==
    {[_fields |-> sh._fields, partner_shipping_id |-> sh.partner_shipping_id,
      company_id |-> c, commercial_partner_id |-> p] :
        sh \in InvoiceShapes, c \in SenderCompanies, p \in Recipients}

\* invoice.name of the i-th invoice of a batch, as tokens
InvoiceName(i) == <<"INV", "/", ToString(i)>>

(***************************************************************************)
(* _validate_required_fields: the message of the FinvoiceGenerationException*)
(* it raises, or "" when it returns normally.                              *)
(***************************************************************************)
HasShipping(inv) ==
    "partner_shipping_id" \in inv._fields /\ inv.partner_shipping_id # {}

\* _validate_required_fields without the check of the transfer key
ValidateWithoutTransferKey(inv) ==
    IF inv.company_id.company_registry = ""
    THEN "Company registry (y-tunnus) missing from sender."
    ELSE IF inv.commercial_partner_id.ahkio_company_registry = ""
    THEN "Company registry (y-tunnus) missing from recipient."
    ELSE IF HasShipping(inv) /\ One(inv.partner_shipping_id).ahkio_company_registry = ""
    THEN "Company registry (y-tunnus) missing from shipping contact."
    ELSE IF inv.company_id.partner_id.bank_ids = {}
    THEN "No bank accounts configured for sender."
    ELSE IF inv.company_id.ahkio_apix_transfer_id = ""
    THEN "Apix transfer id missing from company config."
    ELSE IF inv.company_id.partner_id.ahkio_organisation_unit_number = ""
    THEN "Organisation unit number (OVT) missing from sender."
    ELSE IF inv.commercial_partner_id.ahkio_organisation_unit_number = ""
    THEN "Organisation unit number (OVT) missing from recipient."
    ELSE IF HasShipping(inv) /\ One(inv.partner_shipping_id).ahkio_organisation_unit_number = ""
    THEN "Organisation unit number (OVT) missing from shipping contact."
    ELSE IF inv.company_id.partner_id.ahkio_e_invoice_address = ""
    THEN "E-invoice address missing from sender."
    ELSE IF inv.commercial_partner_id.ahkio_e_invoice_address = ""
    THEN "E-invoice address missing from recipient."
    ELSE IF inv.company_id.partner_id.ahkio_e_invoice_intermediator = ""
    THEN "E-invoice intermediator missing from sender."
    ELSE IF inv.commercial_partner_id.ahkio_e_invoice_intermediator = ""
    THEN "E-invoice intermediator missing from recipient."
    ELSE ""

\* _validate_required_fields with the bank account checked before the
\* registries
ValidateBankFirst(inv) ==
    IF inv.company_id.partner_id.bank_ids = {}
    THEN "No bank accounts configured for sender."
    ELSE IF inv.company_id.company_registry = ""
    THEN "Company registry (y-tunnus) missing from sender."
    ELSE IF inv.commercial_partner_id.ahkio_company_registry = ""
    THEN "Company registry (y-tunnus) missing from recipient."
    ELSE IF HasShipping(inv) /\ One(inv.partner_shipping_id).ahkio_company_registry = ""
    THEN "Company registry (y-tunnus) missing from shipping contact."
    ELSE IF inv.company_id.ahkio_apix_transfer_id = ""
    THEN "Apix transfer id missing from company config."
    ELSE IF inv.company_id.ahkio_apix_transfer_key = ""
    THEN "Apix transfer key missing from company config."
    ELSE IF inv.company_id.partner_id.ahkio_organisation_unit_number = ""
    THEN "Organisation unit number (OVT) missing from sender."
    ELSE IF inv.commercial_partner_id.ahkio_organisation_unit_number = ""
    THEN "Organisation unit number (OVT) missing from recipient."
    ELSE IF HasShipping(inv) /\ One(inv.partner_shipping_id).ahkio_organisation_unit_number = ""
    THEN "Organisation unit number (OVT) missing from shipping contact."
    ELSE IF inv.company_id.partner_id.ahkio_e_invoice_address = ""
    THEN "E-invoice address missing from sender."
    ELSE IF inv.commercial_partner_id.ahkio_e_invoice_address = ""
    THEN "E-invoice address missing from recipient."
    ELSE IF inv.company_id.partner_id.ahkio_e_invoice_intermediator = ""
    THEN "E-invoice intermediator missing from sender."
    ELSE IF inv.commercial_partner_id.ahkio_e_invoice_intermediator = ""
    THEN "E-invoice intermediator missing from recipient."
    ELSE ""

ValidateRequiredFields(inv) ==
    IF inv.company_id.company_registry = ""
    THEN "Company registry (y-tunnus) missing from sender."
    ELSE IF inv.commercial_partner_id.ahkio_company_registry = ""
    THEN "Company registry (y-tunnus) missing from recipient."
    ELSE IF HasShipping(inv) /\ One(inv.partner_shipping_id).ahkio_company_registry = ""
    THEN "Company registry (y-tunnus) missing from shipping contact."
    ELSE IF inv.company_id.partner_id.bank_ids = {}
    THEN "No bank accounts configured for sender."
    ELSE IF inv.company_id.ahkio_apix_transfer_id = ""
    THEN "Apix transfer id missing from company config."
    ELSE IF inv.company_id.ahkio_apix_transfer_key = ""
    THEN "Apix transfer key missing from company config."
    ELSE IF inv.company_id.partner_id.ahkio_organisation_unit_number = ""
    THEN "Organisation unit number (OVT) missing from sender."
    ELSE IF inv.commercial_partner_id.ahkio_organisation_unit_number = ""
    THEN "Organisation unit number (OVT) missing from recipient."
    ELSE IF HasShipping(inv) /\ One(inv.partner_shipping_id).ahkio_organisation_unit_number = ""
    THEN "Organisation unit number (OVT) missing from shipping contact."
    ELSE IF inv.company_id.partner_id.ahkio_e_invoice_address = ""
    THEN "E-invoice address missing from sender."
    ELSE IF inv.commercial_partner_id.ahkio_e_invoice_address = ""
    THEN "E-invoice address missing from recipient."
    ELSE IF inv.company_id.partner_id.ahkio_e_invoice_intermediator = ""
    THEN "E-invoice intermediator missing from sender."
    ELSE IF inv.commercial_partner_id.ahkio_e_invoice_intermediator = ""
    THEN "E-invoice intermediator missing from recipient."
    ELSE ""

(***************************************************************************)
(* Export: _post_invoice_edi and _export_finvoice.                         *)
(***************************************************************************)
\* the invoices an export batch is drawn from: at most MaxMissing mandatory
\* fields are empty
EmptyFields(inv) ==
    {<<"company", f>> : f \in {g \in {"company_registry", "ahkio_apix_transfer_id",
              "ahkio_apix_transfer_key"} : inv.company_id[g] = ""}}
    \cup {<<"sender", f>> : f \in {g \in {"ahkio_organisation_unit_number",
              "ahkio_e_invoice_address", "ahkio_e_invoice_intermediator"} :
                 inv.company_id.partner_id[g] = ""}}
    \cup {<<"recipient", f>> : f \in {g \in DOMAIN inv.commercial_partner_id :
                 inv.commercial_partner_id[g] = ""}}
    \cup {<<"shipping", f>> : f \in {g \in {"ahkio_company_registry",
              "ahkio_organisation_unit_number"} :
                 \E s \in inv.partner_shipping_id : s[g] = ""}}
    \cup (IF inv.company_id.partner_id.bank_ids = {} THEN {<<"sender", "bank_ids">>} ELSE {})

BatchInvoices == {inv \in AllInvoices : Cardinality(EmptyFields(inv)) <= MaxMissing}

NoFile == [name |-> <<>>, content |-> <<>>, pos |-> 0]

FinvoiceGenerationException(arg) == [type |-> "FinvoiceGenerationException", arg |-> arg]

Exception(type) == [type |-> type, arg |-> ""]

\* invoice.name.replace('/', '_')
InvoiceNameSafe(inv) == Replace(inv.name, "/", "_")

\* the zip written to the temporary file: the XML, then the PDF
XmlName(inv) == InvoiceNameSafe(inv) \o <<"_finvoice.xml">>

PdfName(inv) == InvoiceNameSafe(inv) \o <<"_finvoice.pdf">>

ZipBytes(inv) ==
    <<[name |-> XmlName(inv), data |-> "finvoice-xml"],
      [name |-> PdfName(inv), data |-> "invoice-pdf"]>>

\* an upload that also sends the transfer key
UploadParamsWithKey(inv) ==
    LET params == <<<<"soft", "Ahkio">>, <<"ver", "2.0">>,
                    <<"TraID", inv.company_id.ahkio_apix_transfer_id>>,
                    <<"key", inv.company_id.ahkio_apix_transfer_key>>,
                    <<"t", Now>>>>
    IN  Append(params, <<"d", CalculateDigest(params, inv.company_id.ahkio_apix_transfer_key)>>)

\* params of the upload, with the digest appended as 'd'
UploadParams(inv) ==
    LET params == <<<<"soft", "Ahkio">>, <<"ver", "2.0">>,
                    <<"TraID", inv.company_id.ahkio_apix_transfer_id>>,
                    <<"t", Now>>>>
    IN  Append(params, <<"d", CalculateDigest(params, inv.company_id.ahkio_apix_transfer_key)>>)

(***************************************************************************)
(* Export: invoice lines and taxes. Amounts are in cents.                  *)
(***************************************************************************)
\* table account.tax: id and percentage
Taxes == <<[id |-> 1, amount |-> 24], [id |-> 2, amount |-> 10], [id |-> 3, amount |-> 0]>>

\* self.env['account.tax'].browse(id)
Tax(id) == Taxes[CHOOSE i \in 1..Len(Taxes) : Taxes[i].id = id]

\* the lines of invoice.invoice_line_ids: product lines with at most one tax,
\* and section lines (display_type set)
InvoiceLines ==
    [display_type : {""}, price_unit : {10000, 20000}, quantity : {1}, discount : {0},
     tax_ids : {<<>>} \cup {<<Taxes[i].id>> : i \in 1..Len(Taxes)}]
    \cup [display_type : {"line_section"}, price_unit : {0}, quantity : {1}, discount : {0},
          tax_ids : {<<>>}]

\* line.tax_ids.compute_all(price_unit_with_discount, quantity=line.quantity):
\* one result per tax of the line
ComputeAll(line) ==
    LET price_unit_with_discount == (line.price_unit * (100 - line.discount)) \div 100
        base == price_unit_with_discount * line.quantity
    IN  [total_excluded |-> base,
         taxes |-> [i \in 1..Len(line.tax_ids) |->
                      [id |-> line.tax_ids[i],
                       amount |-> (base * Tax(line.tax_ids[i]).amount) \div 100,
                       base |-> base]]]

\* invoice.invoice_line_ids.filtered(lambda l: not l.display_type)
ProductLines(lines) == SelectSeq(lines, LAMBDA l : l.display_type = "")

\* the tax results of all product lines, in line order
RECURSIVE TaxResults(_)
TaxResults(lines) ==
    IF lines = <<>> THEN <<>>
    ELSE (IF Head(lines).display_type = "" THEN ComputeAll(Head(lines)).taxes ELSE <<>>)
         \o TaxResults(Tail(lines))

\* the sum of a field over the tax results of one tax
RECURSIVE SumOf(_, _, _)
SumOf(results, id, field) ==
    IF results = <<>> THEN 0
    ELSE (IF Head(results).id = id THEN Head(results)[field] ELSE 0)
         + SumOf(Tail(results), id, field)

\* the ids of the tax results, each once, in order of first appearance
RECURSIVE FirstSeen(_)
FirstSeen(results) ==
    IF results = <<>> THEN <<>>
    ELSE LET front == FirstSeen(SubSeq(results, 1, Len(results) - 1))
             id == results[Len(results)].id
         IN  IF \E i \in 1..Len(front) : front[i] = id THEN front ELSE Append(front, id)

\* invoice.line_ids.filtered('tax_line_id') as the accounting framework keeps
\* it for a posted customer invoice: one journal line per tax of the invoice
\* lines, crediting the tax amount; a tax whose amount is zero has a journal
\* line or has none (the guard of line 119 provides for a tax without one)
TaxJournals(lines) ==
    LET results == TaxResults(lines)
        ids == FirstSeen(results)
        full == [i \in 1..Len(ids) |->
                    [tax_line_id |-> [id |-> ids[i]], currency_id |-> {"EUR"},
                     amount_currency |-> 0 - SumOf(results, ids[i], "amount"),
                     balance |-> 0 - SumOf(results, ids[i], "amount")]]
    IN  {full, SelectSeq(full, LAMBDA l : l.balance # 0)}

\* the invoice lines of an exported invoice
LineSeqs == UNION {[1..n -> InvoiceLines] : n \in 1..MaxLines}

\* invoice_line_ids and the tax journal lines of line_ids
TaxedInvoices ==
    UNION {{[invoice_line_ids |-> ls, line_ids |-> js] : js \in TaxJournals(ls)} : ls \in LineSeqs}

\* the lines of the invoices of an export batch
PostedLines ==
    LET ls == <<[display_type |-> "", price_unit |-> 10000, quantity |-> 1, discount |-> 0,
                 tax_ids |-> <<1>>]>>
    IN  [invoice_line_ids |-> ls, line_ids |-> CHOOSE js \in TaxJournals(ls) : Len(js) = 1]

\* d[key] = value on an ordered dict: a new key goes last, a known key keeps
\* its place
DictSet(d, key, value) ==
    IF \E i \in 1..Len(d) : d[i][1] = key
    THEN [i \in 1..Len(d) |-> IF d[i][1] = key THEN <<key, value>> ELSE d[i]]
    ELSE Append(d, <<key, value>>)

\* key in d
DictHas(d, key) == \E i \in 1..Len(d) : d[i][1] = key

\* d[key]
DictGet(d, key) == d[CHOOSE i \in 1..Len(d) : d[i][1] = key][2]

\* lines 86-90: the dict comprehension over the tax journal lines
RECURSIVE TaxesOfJournal(_)
TaxesOfJournal(journal) ==
    IF journal = <<>> THEN <<>>
    ELSE LET line == journal[Len(journal)]
         IN  DictSet(TaxesOfJournal(SubSeq(journal, 1, Len(journal) - 1)),
                     line.tax_line_id.id,
                     [line |-> line,
                      tax_amount |-> IF line.currency_id # {} THEN 0 - line.amount_currency
                                     ELSE 0 - line.balance,
                      tax_base_amount |-> 0])

\* lines 112-120: the bases of the tax results added to the entries that exist
RECURSIVE AddBases(_, _)
AddBases(details, results) ==
    IF results = <<>> THEN details
    ELSE LET done == AddBases(details, SubSeq(results, 1, Len(results) - 1))
             tax_res == results[Len(results)]
         IN  IF DictHas(done, tax_res.id)
             THEN DictSet(done, tax_res.id,
                          [DictGet(done, tax_res.id) EXCEPT
                              !.tax_base_amount = @ + tax_res.base])
             ELSE done

\* lines 85-124: aggregated_taxes_details after the loop over the invoice lines
AggregatedTaxesDetails(inv) ==
    AddBases(TaxesOfJournal(inv.line_ids), TaxResults(inv.invoice_line_ids))

\* lines 93-122: invoice_line_values
InvoiceLineValues(inv) ==
    LET lines == ProductLines(inv.invoice_line_ids)
    IN  [i \in 1..Len(lines) |->
            [line |-> lines[i], index |-> i,
             tax_details |-> [j \in 1..Len(ComputeAll(lines[i]).taxes) |->
                                [tax |-> Tax(ComputeAll(lines[i]).taxes[j].id),
                                 tax_amount |-> ComputeAll(lines[i]).taxes[j].amount,
                                 tax_base_amount |-> ComputeAll(lines[i]).taxes[j].base]],
             net_price_subtotal |-> ComputeAll(lines[i]).total_excluded]]

\* lines 75-124: the template values that depend on the lines
TemplateValues(inv) ==
    [invoice_line_values |-> InvoiceLineValues(inv),
     tax_details |-> Values(AggregatedTaxesDetails(inv))]

\* the bodies Apix may answer with
OkBody == "<Response><Status>OK</Status></Response>"

FailBody == "<Response><Status>FAIL</Status></Response>"

NoStatusBody == "<Response/>"

HtmlBody == "<html>Bad Gateway"

\* etree.fromstring(text): whether the text is well-formed XML
WellFormed(text) == text \in {OkBody, FailBody, NoStatusBody}

\* xpath('/Response/Status'): the texts of the matching elements
XPathStatus(text) ==
    IF text = OkBody THEN <<"OK">>
    ELSE IF text = FailBody THEN <<"FAIL">>
    ELSE <<>>

\* what Apix may answer to the PUT
PutResponses ==
    {[status_code |-> 200, text |-> OkBody],
     [status_code |-> 200, text |-> FailBody],
     [status_code |-> 400, text |-> FailBody],
     [status_code |-> 200, text |-> NoStatusBody],
     [status_code |-> 502, text |-> HtmlBody]}

\* base64.encodebytes, and the decoding ir.attachment applies to 'datas'
Base64Encode(bytes) == [b64 |-> bytes]

Base64Decode(datas) == datas.b64

\* ir.attachment.create
NewAttachment(name, raw, res_model, mimetype, owner) ==
    [name |-> name, raw |-> raw, res_model |-> res_model, res_id |-> 0,
     type |-> "binary", mimetype |-> mimetype, owner |-> owner, committed |-> FALSE]

\* the except clause of _post_invoice_edi: only FinvoiceGenerationException
\* is turned into an error entry
Caught(exc) == exc.type = "FinvoiceGenerationException"

\* the for statement of _post_invoice_edi
PostNext ==
    /\ epc = "loop"
    /\ IF idx < BatchSize
       THEN \E inv \in BatchInvoices :
              /\ invoice' = {[name |-> InvoiceName(idx + 1)] @@ PostedLines @@ inv}
              /\ idx' = idx + 1
              /\ epc' = "validate"
       ELSE /\ epc' = "returned"
            /\ UNCHANGED <<invoice, idx>>
    /\ UNCHANGED <<res, temp_zip_file, response, template_values, eraised>>
    /\ UNCHANGED <<shared_vars, import_vars>>

\* an exception leaves _export_finvoice: an error entry, or it leaves the batch
ExportRaise(exc) ==
    /\ invoice' = {}
    /\ temp_zip_file' = NoFile
    /\ response' = <<>>
    /\ template_values' = <<>>
    /\ IF Caught(exc)
       THEN /\ res' = res @@ (idx :> [error |-> exc])
            /\ epc' = "loop"
            /\ UNCHANGED eraised
       ELSE /\ eraised' = <<exc>>
            /\ epc' = "raised"
            /\ UNCHANGED res

\* _export_finvoice, line 73
ExportValidate ==
    /\ epc = "validate"
    /\ LET m == ValidateRequiredFields(One(invoice))
       IN  IF m # ""
           THEN ExportRaise(FinvoiceGenerationException(m))
           ELSE /\ epc' = "build"
                /\ UNCHANGED <<invoice, res, temp_zip_file, response, template_values, eraised>>
    /\ UNCHANGED idx
    /\ UNCHANGED <<shared_vars, import_vars>>

\* _export_finvoice, lines 75-157: render, zip into the temporary file, seek(0)
ExportBuild ==
    /\ epc = "build"
    /\ LET inv == One(invoice)
       IN  temp_zip_file' =
             [name |-> <<"apix_invoice_">> \o InvoiceNameSafe(inv) \o <<"_", "k3j2x9", ".zip">>,
              content |-> ZipBytes(inv), pos |-> 0]
    /\ template_values' = <<TemplateValues(One(invoice))>>
    /\ epc' = "put"
    /\ UNCHANGED <<idx, invoice, res, response, eraised>>
    /\ UNCHANGED <<shared_vars, import_vars>>

\* _export_finvoice, lines 159-163: the PUT, which may raise or answer
ExportPut ==
    /\ epc = "put"
    /\ LET inv == One(invoice)
           req == [method |-> "PUT",
                   url |-> Url(apix_env, "https://test-api.apix.fi/invoices",
                                         "https://api.apix.fi/invoices"),
                   params |-> UploadParams(inv),
                   data |-> Read(temp_zip_file)]
       IN  /\ http' = [http EXCEPT !["edi"] = Append(@, req)]
           /\ \/ /\ ExportRaise(Exception("ConnectionError"))
                 /\ UNCHANGED logs
              \/ \E r \in PutResponses :
                   /\ response' = <<r>>
                   /\ temp_zip_file' = AfterRead(temp_zip_file)
                   /\ logs' = logs \cup {[level |-> "info", event |-> "Response from apix",
                                          ref |-> r.text]}
                   /\ epc' = "response"
                   /\ UNCHANGED <<invoice, res, template_values, eraised>>
    /\ UNCHANGED idx
    /\ UNCHANGED <<apix_env, attachments>>
    /\ UNCHANGED import_vars

\* _export_finvoice, lines 165-175, and _post_invoice_edi, line 51
ExportResponse ==
    /\ epc = "response"
    /\ LET r == response[1]
       IN  IF ~WellFormed(r.text)
           THEN ExportRaise(Exception("XMLSyntaxError")) /\ UNCHANGED attachments
           ELSE IF XPathStatus(r.text) = <<>>
           THEN ExportRaise(Exception("IndexError")) /\ UNCHANGED attachments
           ELSE IF XPathStatus(r.text)[1] # "OK"
           THEN ExportRaise(FinvoiceGenerationException(r.text)) /\ UNCHANGED attachments
           ELSE LET att == NewAttachment(temp_zip_file.name,
                                         Base64Decode(Base64Encode(Read(temp_zip_file))),
                                         "", "application/zip", "export")
                IN  /\ attachments' = Append(attachments, att)
                    /\ res' = res @@ (idx :> [success |-> TRUE,
                                              attachment |-> Len(attachments) + 1])
                    /\ invoice' = {}
                    /\ temp_zip_file' = NoFile
                    /\ response' = <<>>
                    /\ template_values' = <<>>
                    /\ epc' = "loop"
                    /\ UNCHANGED eraised
    /\ UNCHANGED idx
    /\ UNCHANGED <<apix_env, http, logs>>
    /\ UNCHANGED import_vars

\* a direct call of _validate_required_fields(invoice)
ValidateCall ==
    /\ epc = "call_validate"
    /\ LET m == ValidateRequiredFields(One(invoice))
       IN  IF m # ""
           THEN eraised' = <<FinvoiceGenerationException(m)>> /\ epc' = "raised"
           ELSE eraised' = <<>> /\ epc' = "returned"
    /\ UNCHANGED <<idx, invoice, res, temp_zip_file, response, template_values>>
    /\ UNCHANGED <<shared_vars, import_vars>>



(***************************************************************************)
(* Import: companies, callers, Apix storage and packages.                  *)
(***************************************************************************)
\* table res.company in id order; company 3 has no Apix credentials
ResCompany ==
    <<[id |-> 1, name |-> "Yritys Yksi Oy", company_registry |-> "1111111-1",
       vat |-> "FI11111111", ahkio_apix_transfer_id |-> "TRA-1",
       ahkio_apix_transfer_key |-> "KEY-1",
       partner_id |-> [ahkio_organisation_unit_number |-> "003711111111"]],
      [id |-> 2, name |-> "Yritys Kaksi Oy", company_registry |-> "2222222-2",
       vat |-> "FI22222222", ahkio_apix_transfer_id |-> "TRA-2",
       ahkio_apix_transfer_key |-> "KEY-2",
       partner_id |-> [ahkio_organisation_unit_number |-> "003722222222"]],
      [id |-> 3, name |-> "Yritys Kolme Oy", company_registry |-> "3333333-3",
       vat |-> "FI33333333", ahkio_apix_transfer_id |-> "",
       ahkio_apix_transfer_key |-> "",
       partner_id |-> [ahkio_organisation_unit_number |-> "003733333333"]]>>

CompanyIds == {ResCompany[i].id : i \in 1..Len(ResCompany)}

\* the callers: the scheduled job and a user of the application
Callers == {"cron", "manual"}

\* the environment a caller runs in: env.company and env.is_superuser()
CallerUsers(p) ==
    IF p = "cron" THEN {[company |-> 1, su |-> TRUE]}
    ELSE [company : {1, 2}, su : {FALSE}]

StorageIDs == {ToString(i) : i \in 1..MaxFiles}

StorageStatuses == {"NEW", "UNRECEIVED", "RECEIVED"}

\* the company a file was sent to: the first two to company 1, the others to
\* company 2
FileCompany(sid) == IF sid \in {"1", "2"} THEN 1 ELSE 2

\* the descriptor list2 gives for a StorageID
Descriptor(sid, status) ==
    [StorageID |-> sid, StorageKey |-> "SK-" \o sid, StorageStatus |-> status,
     DocumentID |-> "DOC-" \o sid, DocumentName |-> "finvoice.xml"]

\* a parsed Finvoice document: for each element name the texts xpath('//name')
\* finds, in document order
EmptyTree ==
    [InvoiceRecipientOrganisationUnitNumber |-> <<>>,
     BuyerOrganisationUnitNumber |-> <<>>,
     BuyerPartyIdentifier |-> <<>>,
     BuyerOrganisationTaxCode |-> <<>>,
     InvoiceTotalVatIncludedAmount |-> <<>>,
     InvoiceDate |-> <<>>,
     InvoiceUrlText |-> <<>>]

\* every document over the buyer elements, the total and the date
Texts(values) == {<<>>} \cup {<<v>> : v \in values}

Trees ==
    [InvoiceRecipientOrganisationUnitNumber : Texts({"003711111111", "003722222222", "0037999"}),
     BuyerOrganisationUnitNumber : Texts({"003711111111", "003722222222", "0037999"}),
     BuyerPartyIdentifier : Texts({"1111111-1", "2222222-2", "9999999-9"}),
     BuyerOrganisationTaxCode : Texts({"FI11111111", "FI22222222", "FI99999999"}),
     InvoiceTotalVatIncludedAmount : Texts({"124,00", "-24,80", "12 EUR"}),
     InvoiceDate : Texts({"20260105", "5.1.2026"}),
     InvoiceUrlText : {<<>>}]

\* the documents Apix delivers in a sweep
SweepTrees ==
    {[EmptyTree EXCEPT !.BuyerPartyIdentifier = <<"1111111-1">>,
                       !.InvoiceTotalVatIncludedAmount = <<"124,00">>,
                       !.InvoiceDate = <<"20260105">>],
     [EmptyTree EXCEPT !.InvoiceRecipientOrganisationUnitNumber = <<"003722222222">>,
                       !.InvoiceUrlText = <<"file://liite.pdf", "liite.pdf", "file://puuttuu.pdf">>],
     [EmptyTree EXCEPT !.BuyerPartyIdentifier = <<"1111111-1">>,
                       !.InvoiceDate = <<"5.1.2026">>]}

\* the bytes of an XML document: well-formed with its tree, or not
XmlBytes(t) == [wellformed |-> TRUE, tree |-> <<t>>]

BrokenBytes == [wellformed |-> FALSE, tree |-> <<>>]

\* the body of a download response: a zip with its entries, or something else
ZipOf(entries) == [zip |-> TRUE, entries |-> entries]

NotAZip == [zip |-> FALSE, entries |-> <<>>]

SweepPackages ==
    {ZipOf(<<[name |-> "finvoice.xml", data |-> XmlBytes(t)],
             [name |-> "liite.pdf", data |-> BrokenBytes]>>) : t \in SweepTrees}
    \cup {ZipOf(<<[name |-> "finvoice.xml", data |-> BrokenBytes]>>),
          ZipOf(<<[name |-> "muu.xml", data |-> XmlBytes(EmptyTree)]>>)}

\* what Apix may answer to a download
DownloadResponses ==
    {[status_code |-> 200, content |-> c] : c \in SweepPackages}
    \cup {[status_code |-> 500, content |-> NotAZip]}

(***************************************************************************)
(* The database as each caller sees it: a record is visible to the         *)
(* transaction that wrote it and, once committed, to every other.          *)
(***************************************************************************)
Visible(rec, p) == rec.committed \/ rec.owner = p

\* commit() that makes nothing durable
CommitNothing(table, p) == table

\* self._cr.commit()
Commit(table, p) ==
    [i \in 1..Len(table) |->
        IF table[i].owner = p THEN [table[i] EXCEPT !.committed = TRUE] ELSE table[i]]

\* the value of a company at a (dotted) field path of a search domain
CompanyValue(c, path) ==
    IF path = "partner_id.ahkio_organisation_unit_number"
    THEN c.partner_id.ahkio_organisation_unit_number
    ELSE c[path]

\* search([(path, '=', txt)], limit=1) on res.company: the first match in id
\* order
SearchCompany(path, txt) ==
    LET hits == SelectSeq(ResCompany, LAMBDA c : CompanyValue(c, path) = txt)
    IN  IF hits = <<>> THEN <<>> ELSE <<hits[1]>>

\* a or b on two lists
PyOr(a, b) == IF a # <<>> THEN a ELSE b

(***************************************************************************)
(* _import_finvoice(tree, invoice) as the user usr: the exception raised   *)
(* (exc), the invoice created (move) and whether the fallback was logged.  *)
(***************************************************************************)
\* float(text.replace(',', '.'))
ParseFloat(text) ==
    IF text = "124,00" THEN [ok |-> TRUE, value |-> 12400]
    ELSE IF text = "-24,80" THEN [ok |-> TRUE, value |-> -2480]
    ELSE [ok |-> FALSE, value |-> 0]

\* datetime.strptime(text, '%Y%m%d').strftime(DEFAULT_SERVER_DATE_FORMAT)
ParseDate(text) ==
    IF text = "20260105" THEN [ok |-> TRUE, value |-> "2026-01-05"]
    ELSE [ok |-> FALSE, value |-> ""]

\* lines 192-203: the company found in the document, <<>> when none
ResolveCompany(t) ==
    LET e1 == PyOr(t.InvoiceRecipientOrganisationUnitNumber, t.BuyerOrganisationUnitNumber)
        c1 == IF e1 = <<>> THEN <<>>
              ELSE SearchCompany("partner_id.ahkio_organisation_unit_number", e1[1])
        e2 == t.BuyerPartyIdentifier
        c2 == IF c1 # <<>> THEN c1
              ELSE IF e2 = <<>> THEN <<>>
              ELSE SearchCompany("company_registry", e2[1])
        e3 == t.BuyerOrganisationTaxCode
    IN  IF c2 # <<>> THEN c2
        ELSE IF e3 = <<>> THEN <<>>
        ELSE SearchCompany("vat", e3[1])

\* the check with the test of the superuser negated
MayImportNegated(usr, company) == ~usr.su \/ usr.company = company

\* lines 211-213: the check of the resolved company against the caller's
MayImport(usr, company) == usr.su \/ usr.company = company

ImportFinvoice(t, usr) ==
    LET found == ResolveCompany(t)
        company == IF found # <<>> THEN found[1].id ELSE usr.company
        total == IF t.InvoiceTotalVatIncludedAmount = <<>> THEN [ok |-> TRUE, value |-> 0]
                 ELSE ParseFloat(t.InvoiceTotalVatIncludedAmount[1])
        date == IF t.InvoiceDate = <<>> THEN [ok |-> TRUE, value |-> ""]
                ELSE ParseDate(t.InvoiceDate[1])
        note == found = <<>>
    IN  IF ~MayImport(usr, company)
        THEN [exc |-> <<[type |-> "UserError",
                         arg |-> "You can only import invoices to your company"]>>,
              move |-> <<>>, note |-> note]
        ELSE IF ~total.ok \/ ~date.ok
        THEN [exc |-> <<Exception("ValueError")>>, move |-> <<>>, note |-> note]
        ELSE [exc |-> <<>>,
              move |-> <<[company_id |-> company,
                          move_type |-> IF total.value < 0 THEN "in_refund" ELSE "in_invoice",
                          invoice_date |-> date.value]>>,
              note |-> note]


(***************************************************************************)
(* Import: fetch_invoice_zips, fetch_invoice_zips_for_company,             *)
(* list_invoice_zips and download.                                         *)
(***************************************************************************)
\* search(company_conditions): the companies with a transfer id and key
ConfiguredCompanies ==
    SelectSeq(ResCompany, LAMBDA c : c.ahkio_apix_transfer_id # "" /\ c.ahkio_apix_transfer_key # "")

\* an exception leaves the caller's entry point
Raise(p, exc) ==
    /\ pc' = [pc EXCEPT ![p] = "raised"]
    /\ raised' = [raised EXCEPT ![p] = <<exc>>]

\* raise <obj>: an object that is no exception raises TypeError instead
PyRaise(obj) ==
    IF obj \in {OkBody, FailBody, NoStatusBody, HtmlBody}
    THEN [type |-> "TypeError", arg |-> "exceptions must derive from BaseException"]
    ELSE obj

\* the sweep ending at the first file whose download returns
ContinueStops(p) ==
    /\ pc' = [pc EXCEPT ![p] = "done"]
    /\ UNCHANGED <<k, ci>>

\* the for statements of fetch_invoice_zips_for_company and fetch_invoice_zips
\* after the download of file k has returned
Continue(p) ==
    /\ pc' = [pc EXCEPT ![p] = IF k[p] < Len(files[p]) THEN "dl_check"
                               ELSE IF ci[p] < Len(comps[p]) THEN "list" ELSE "done"]
    /\ k' = [k EXCEPT ![p] = IF k[p] < Len(files[p]) THEN k[p] + 1 ELSE k[p]]
    /\ ci' = [ci EXCEPT ![p] = IF k[p] >= Len(files[p]) /\ ci[p] < Len(comps[p])
                               THEN ci[p] + 1 ELSE ci[p]]

\* fetch_invoice_zips(), lines 158-168
StartSweep(p) ==
    /\ pc[p] = "idle"
    /\ \E u \in CallerUsers(p) : user' = [user EXCEPT ![p] = u]
    /\ comps' = [comps EXCEPT ![p] = ConfiguredCompanies]
    /\ ci' = [ci EXCEPT ![p] = 1]
    /\ filter' = [filter EXCEPT ![p] = "UNRECEIVED"]
    /\ pc' = [pc EXCEPT ![p] = IF ConfiguredCompanies = <<>> THEN "done" ELSE "list"]
    /\ logs' = logs \cup {[level |-> "info", event |-> "Starting to fetch invoices from Apix",
                           ref |-> ""]}
    /\ UNCHANGED <<files, k, ret, raised, invoices, storage, received, tree>>
    /\ UNCHANGED <<apix_env, http, attachments>>
    /\ UNCHANGED export_vars

\* fetch_invoice_zips_for_company(company) called for one company
StartCompanySweep(p) ==
    /\ pc[p] = "idle"
    /\ \E u \in CallerUsers(p) : user' = [user EXCEPT ![p] = u]
    /\ \E i \in 1..Len(ConfiguredCompanies) :
         comps' = [comps EXCEPT ![p] = <<ConfiguredCompanies[i]>>]
    /\ ci' = [ci EXCEPT ![p] = 1]
    /\ filter' = [filter EXCEPT ![p] = "UNRECEIVED"]
    /\ pc' = [pc EXCEPT ![p] = "list"]
    /\ UNCHANGED <<files, k, ret, raised, invoices, storage, received, tree>>
    /\ UNCHANGED shared_vars
    /\ UNCHANGED export_vars

\* download(file, storage_status) called on its own
StartDownload(p) ==
    /\ pc[p] = "idle"
    /\ \E u \in CallerUsers(p) : user' = [user EXCEPT ![p] = u]
    /\ \E sid \in StorageIDs, st \in StorageStatuses :
         files' = [files EXCEPT ![p] = <<Descriptor(sid, st)>>]
    /\ \E f \in {"", "UNRECEIVED", "RECEIVED"} : filter' = [filter EXCEPT ![p] = f]
    /\ k' = [k EXCEPT ![p] = 1]
    /\ pc' = [pc EXCEPT ![p] = "dl_check"]
    /\ UNCHANGED <<comps, ci, ret, raised, invoices, storage, received, tree>>
    /\ UNCHANGED shared_vars
    /\ UNCHANGED export_vars

\* what Apix may answer to list2 for a company: the OK envelope with one
\* Group per file of the company, or another body
ListResponses(company) ==
    LET sids == {sid \in StorageIDs : storage[sid].company = company.id}
        order == CHOOSE q \in [1..Cardinality(sids) -> sids] :
                    \A i, j \in 1..Cardinality(sids) :
                        i < j => \E a, b \in 1..MaxFiles :
                                    a < b /\ q[i] = ToString(a) /\ q[j] = ToString(b)
    IN  {[status_code |-> 200, text |-> OkBody,
          groups |-> [i \in 1..Cardinality(sids) |->
                         Descriptor(order[i], storage[order[i]].status)]],
         [status_code |-> 200, text |-> FailBody, groups |-> <<>>],
         [status_code |-> 200, text |-> NoStatusBody, groups |-> <<>>],
         [status_code |-> 502, text |-> HtmlBody, groups |-> <<>>]}

ListParams(company) ==
    LET params == <<<<"TraID", company.ahkio_apix_transfer_id>>, <<"t", Now>>>>
    IN  Append(params, <<"d", CalculateDigest(params, company.ahkio_apix_transfer_key)>>)

\* list_invoice_zips(company), lines 21-49, and lines 149-152 of its caller
ListInvoiceZips(p) ==
    /\ pc[p] = "list"
    /\ LET company == comps[p][ci[p]]
           req == [method |-> "GET",
                   url |-> Url(apix_env, "https://test-terminal.apix.fi/list2",
                                         "https://terminal.apix.fi/list2"),
                   params |-> ListParams(company), data |-> <<>>]
       IN  /\ http' = [http EXCEPT ![p] = Append(@, req)]
           /\ \/ /\ Raise(p, Exception("ConnectionError"))
                 /\ received' = [received EXCEPT ![p] = <<>>]
                 /\ UNCHANGED <<files, k, ci, logs>>
              \/ \E r \in ListResponses(company) :
                   /\ received' = [received EXCEPT ![p] = <<r>>]
                   /\ IF ~WellFormed(r.text)
                      THEN Raise(p, Exception("XMLSyntaxError")) /\ UNCHANGED <<files, k, ci, logs>>
                      ELSE IF XPathStatus(r.text) = <<>>
                      THEN Raise(p, Exception("IndexError")) /\ UNCHANGED <<files, k, ci, logs>>
                      ELSE IF XPathStatus(r.text)[1] # "OK"
                      THEN Raise(p, PyRaise(r.text)) /\ UNCHANGED <<files, k, ci, logs>>
                      ELSE /\ files' = [files EXCEPT ![p] = r.groups]
                           /\ k' = [k EXCEPT ![p] = 1]
                           /\ logs' = IF r.groups = <<>> THEN logs
                                      ELSE logs \cup {[level |-> "info",
                                              event |-> "Starting to fetch invoices for company",
                                              ref |-> company.name]}
                           /\ pc' = [pc EXCEPT ![p] =
                                        IF r.groups # <<>> THEN "dl_check"
                                        ELSE IF ci[p] < Len(comps[p]) THEN "list" ELSE "done"]
                           /\ ci' = [ci EXCEPT ![p] =
                                        IF r.groups = <<>> /\ ci[p] < Len(comps[p])
                                        THEN ci[p] + 1 ELSE ci[p]]
                           /\ UNCHANGED raised
    /\ UNCHANGED <<user, comps, filter, ret, invoices, storage, tree>>
    /\ UNCHANGED <<apix_env, attachments>>
    /\ UNCHANGED export_vars

\* f"apix_in_invoice_{file['StorageID']}" + ".zip", as tokens
PackageName(file) == <<"apix_in_invoice_", file.StorageID, ".zip">>

\* the search finding only the packages already linked to an invoice
ExistingLinked(p, file) ==
    SelectSeq(attachments, LAMBDA a : /\ Visible(a, p)
                                      /\ a.name = PackageName(file)
                                      /\ a.res_model = "account.move"
                                      /\ a.res_id # 0)

\* download, lines 61-64: the search for the package attachment
Existing(p, file) ==
    SelectSeq(attachments, LAMBDA a : /\ Visible(a, p)
                                      /\ a.name = PackageName(file)
                                      /\ a.res_model = "account.move")

\* download, lines 53-68: the three early returns
DownloadCheck(p) ==
    /\ pc[p] = "dl_check"
    /\ LET file == files[p][k[p]]
       IN  IF file.StorageStatus = "NEW"
           THEN /\ ret' = [ret EXCEPT ![p] = <<>>]
                /\ Continue(p)
                /\ UNCHANGED logs
           ELSE IF filter[p] # "" /\ file.StorageStatus # filter[p]
           THEN /\ ret' = [ret EXCEPT ![p] = <<>>]
                /\ Continue(p)
                /\ UNCHANGED logs
           ELSE IF Existing(p, file) # <<>>
           THEN /\ ret' = [ret EXCEPT ![p] = <<>>]
                /\ Continue(p)
                /\ logs' = logs \cup {[level |-> "error",
                                       event |-> "Apix attachment already exists for this invoice",
                                       ref |-> file.StorageID]}
           ELSE /\ pc' = [pc EXCEPT ![p] = "dl_fetch"]
                /\ UNCHANGED <<ret, k, ci, logs>>
    /\ UNCHANGED <<user, comps, files, filter, raised, invoices, storage, received, tree>>
    /\ UNCHANGED <<apix_env, http, attachments>>
    /\ UNCHANGED export_vars

DownloadParams(file) ==
    LET params == <<<<"markreceived", "yes">>, <<"SID", file.StorageID>>, <<"t", Now>>>>
    IN  Append(params, <<"d", CalculateDigest(params, file.StorageKey)>>)

\* re.match(r'^file:\/\/(?P<filename>.+)$', uri): the filename, <<>> when no match
UrlFilename(uri) ==
    IF uri = "file://liite.pdf" THEN <<"liite.pdf">>
    ELSE IF uri = "file://puuttuu.pdf" THEN <<"puuttuu.pdf">>
    ELSE <<>>

\* zip_file.open(name): the entries of that name
ZipEntries(content, name) == SelectSeq(content.entries, LAMBDA e : e.name = name)

\* download, lines 100-118: the attachments the document names that the zip holds
RECURSIVE AttachmentFiles(_, _)
AttachmentFiles(content, uris) ==
    IF uris = <<>> THEN <<>>
    ELSE LET m == UrlFilename(Head(uris))
             rest == AttachmentFiles(content, Tail(uris))
         IN  IF m = <<>> \/ ZipEntries(content, m[1]) = <<>> THEN rest
             ELSE <<ZipEntries(content, m[1])[1]>> \o rest

\* download, lines 100-118: what is logged while collecting them
AttachmentLogs(content, uris, file) ==
    {[level |-> "warning", event |-> "Failed to parse attachment", ref |-> file.DocumentID] :
        i \in {j \in 1..Len(uris) : UrlFilename(uris[j]) = <<>>}}
    \cup {[level |-> "error", event |-> "Invoice specified attachment not found in the Apix zip",
           ref |-> UrlFilename(uris[i])[1]] :
        i \in {j \in 1..Len(uris) : /\ UrlFilename(uris[j]) # <<>>
                                    /\ ZipEntries(content, UrlFilename(uris[j])[1]) = <<>>}}

\* account.move as saved by the import form
NewInvoice(move, p) == move @@ [owner |-> p, committed |-> FALSE]

\* download, lines 70-146, and line 156 of its caller
DownloadFetch(p) ==
    /\ pc[p] = "dl_fetch"
    /\ LET file == files[p][k[p]]
           req == [method |-> "GET",
                   url |-> Url(apix_env, "https://test-terminal.apix.fi/download",
                                         "https://terminal.apix.fi/download"),
                   params |-> DownloadParams(file), data |-> <<>>]
       IN  /\ http' = [http EXCEPT ![p] = Append(@, req)]
           /\ \/ /\ Raise(p, Exception("ConnectionError"))
                 /\ received' = [received EXCEPT ![p] = <<>>]
                 /\ UNCHANGED <<attachments, invoices, storage, logs, ret, k, ci>>
              \/ \E r \in DownloadResponses :
                   LET failed == IF r.status_code # 200
                                 THEN {[level |-> "error", event |-> "Failed to download invoice",
                                        ref |-> file.DocumentID]}
                                 ELSE {}
                       att == NewAttachment(PackageName(file), r.content, "account.move", "", p)
                       docs == ZipEntries(r.content, file.DocumentName)
                   IN  /\ received' = [received EXCEPT ![p] = <<r>>]
                       /\ storage' = IF r.status_code = 200
                                     THEN [storage EXCEPT ![file.StorageID].status = "RECEIVED"]
                                     ELSE storage
                       /\ IF ~r.content.zip
                          THEN /\ Raise(p, Exception("BadZipFile"))
                               /\ attachments' = Append(attachments, att)
                               /\ logs' = logs \cup failed
                               /\ UNCHANGED <<invoices, ret, k, ci>>
                          ELSE IF docs = <<>>
                          THEN /\ Raise(p, Exception("KeyError"))
                               /\ attachments' = Append(attachments, att)
                               /\ logs' = logs \cup failed
                               /\ UNCHANGED <<invoices, ret, k, ci>>
                          ELSE IF ~docs[1].data.wellformed
                          THEN /\ attachments' = Append(attachments, att)
                               /\ logs' = logs \cup failed \cup
                                     {[level |-> "error", event |-> "Could not parse finvoice xml",
                                       ref |-> file.DocumentID]}
                               /\ ret' = [ret EXCEPT ![p] = <<>>]
                               /\ Continue(p)
                               /\ UNCHANGED <<invoices, raised>>
                          ELSE LET t == docs[1].data.tree[1]
                                   extra == AttachmentFiles(r.content, t.InvoiceUrlText)
                                   seen == failed \cup AttachmentLogs(r.content, t.InvoiceUrlText, file)
                                   out == ImportFinvoice(t, user[p])
                                   note == IF out.note
                                           THEN {[level |-> "info", event |-> "Company not found",
                                                  ref |-> ""]}
                                           ELSE {}
                                   id == Len(invoices) + 1
                               IN  IF out.exc # <<>>
                                   THEN /\ Raise(p, out.exc[1])
                                        /\ attachments' = Append(attachments, att)
                                        /\ logs' = logs \cup seen \cup note
                                        /\ UNCHANGED <<invoices, ret, k, ci>>
                                   ELSE /\ invoices' = Commit(Append(invoices, NewInvoice(out.move[1], p)), p)
                                        /\ attachments' =
                                             Commit(Append(attachments, [att EXCEPT !.res_id = id])
                                                    \o [i \in 1..Len(extra) |->
                                                          [NewAttachment(<<extra[i].name>>, extra[i].data,
                                                                         "account.move", "", p)
                                                             EXCEPT !.res_id = id]], p)
                                        /\ logs' = logs \cup seen \cup note \cup
                                             (IF comps[p] = <<>> THEN {}
                                              ELSE {[level |-> "info", event |-> "Downloaded invoice",
                                                     ref |-> file.DocumentID]})
                                        /\ ret' = [ret EXCEPT ![p] = <<id>>]
                                        /\ Continue(p)
                                        /\ UNCHANGED raised
    /\ UNCHANGED <<user, comps, files, filter, tree>>
    /\ UNCHANGED apix_env
    /\ UNCHANGED export_vars

\* what a transaction that ends without self._cr.commit() leaves of a table
Rollback(table, p) == SelectSeq(table, LAMBDA r : r.committed \/ r.owner # p)

\* the GET of download, lines 70-80
DownloadRequest(file) ==
    [method |-> "GET",
     url |-> Url(apix_env, "https://test-terminal.apix.fi/download",
                           "https://terminal.apix.fi/download"),
     params |-> DownloadParams(file), data |-> <<>>]

\* the process of a caller dies during a sweep or a download: what it has not
\* committed is rolled back. While a file is being fetched the request may
\* already be out, and Apix has then marked the file received.
Crash(p) ==
    /\ pc[p] \in {"list", "dl_check", "dl_fetch"}
    /\ pc' = [pc EXCEPT ![p] = "crashed"]
    /\ attachments' = Rollback(attachments, p)
    /\ invoices' = Rollback(invoices, p)
    /\ IF pc[p] = "dl_fetch"
       THEN \/ UNCHANGED <<http, storage>>
            \/ LET file == files[p][k[p]]
               IN  /\ http' = [http EXCEPT ![p] = Append(@, DownloadRequest(file))]
                   /\ storage' = [storage EXCEPT ![file.StorageID].status = "RECEIVED"]
       ELSE UNCHANGED <<http, storage>>
    /\ UNCHANGED <<user, comps, ci, files, k, filter, ret, raised, received, tree>>
    /\ UNCHANGED <<apix_env, logs>>
    /\ UNCHANGED export_vars

\* _import_finvoice(tree, invoice) called on a document
ImportCall(p) ==
    /\ pc[p] = "import"
    /\ LET out == ImportFinvoice(tree[1], user[p])
       IN  /\ logs' = IF out.note
                      THEN logs \cup {[level |-> "info", event |-> "Company not found", ref |-> ""]}
                      ELSE logs
           /\ IF out.exc # <<>>
              THEN /\ Raise(p, out.exc[1])
                   /\ UNCHANGED <<invoices, ret>>
              ELSE /\ invoices' = Append(invoices, NewInvoice(out.move[1], p))
                   /\ ret' = [ret EXCEPT ![p] = <<Len(invoices) + 1>>]
                   /\ pc' = [pc EXCEPT ![p] = "done"]
                   /\ UNCHANGED raised
    /\ UNCHANGED <<user, comps, ci, files, k, filter, storage, received, tree>>
    /\ UNCHANGED <<apix_env, http, attachments>>
    /\ UNCHANGED export_vars

(***************************************************************************)
(* Claims on the export.                                                   *)
(***************************************************************************)
\* the order of the mandatory fields as the specification lists it: who, field,
\* and the message naming it
CheckOrder ==
    <<<<"company", "company_registry", "Company registry (y-tunnus) missing from sender.">>,
      <<"recipient", "ahkio_company_registry", "Company registry (y-tunnus) missing from recipient.">>,
      <<"shipping", "ahkio_company_registry", "Company registry (y-tunnus) missing from shipping contact.">>,
      <<"sender", "bank_ids", "No bank accounts configured for sender.">>,
      <<"company", "ahkio_apix_transfer_id", "Apix transfer id missing from company config.">>,
      <<"company", "ahkio_apix_transfer_key", "Apix transfer key missing from company config.">>,
      <<"sender", "ahkio_organisation_unit_number", "Organisation unit number (OVT) missing from sender.">>,
      <<"recipient", "ahkio_organisation_unit_number", "Organisation unit number (OVT) missing from recipient.">>,
      <<"shipping", "ahkio_organisation_unit_number", "Organisation unit number (OVT) missing from shipping contact.">>,
      <<"sender", "ahkio_e_invoice_address", "E-invoice address missing from sender.">>,
      <<"recipient", "ahkio_e_invoice_address", "E-invoice address missing from recipient.">>,
      <<"sender", "ahkio_e_invoice_intermediator", "E-invoice intermediator missing from sender.">>,
      <<"recipient", "ahkio_e_invoice_intermediator", "E-invoice intermediator missing from recipient.">>>>

\* the positions of CheckOrder whose field is empty on the invoice
MissingAt(inv) ==
    {i \in 1..Len(CheckOrder) : <<CheckOrder[i][1], CheckOrder[i][2]>> \in EmptyFields(inv)}

FirstMissing(inv) == CHOOSE i \in MissingAt(inv) : \A j \in MissingAt(inv) : i <= j

\* C1: _validate_required_fields raises the error naming the first empty
\* mandatory field in the order of CheckOrder (the shipping contact's fields
\* counting only when a shipping contact exists), and raises nothing when no
\* mandatory field is empty.
C1_ValidationOrder ==
    epc \in {"raised", "returned"} =>
        LET inv == One(invoice)
        IN  IF MissingAt(inv) = {}
            THEN epc = "returned" /\ eraised = <<>>
            ELSE /\ epc = "raised"
                 /\ eraised = <<FinvoiceGenerationException(CheckOrder[FirstMissing(inv)][3])>>

\* C1 witness: several fields are empty, among them a shipping contact's, and
\* the error names the first of them
C1_Witness ==
    /\ epc = "raised"
    /\ Cardinality(MissingAt(One(invoice))) >= 3
    /\ FirstMissing(One(invoice)) = 3
    /\ eraised[1].arg = "Company registry (y-tunnus) missing from shipping contact."

\* C2: a step that sends a request to Apix or creates an attachment is taken
\* only for an invoice none of whose mandatory fields is empty, and the
\* validation of an invoice with an empty mandatory field ends the export of
\* that invoice with an error entry, nothing sent and nothing stored.
C2_ValidationBeforeUpload ==
    [][/\ (http' # http \/ attachments' # attachments) =>
            (invoice # {} /\ EmptyFields(One(invoice)) = {})
       /\ (epc = "validate" /\ EmptyFields(One(invoice)) # {}) =>
            /\ epc' = "loop"
            /\ idx \in DOMAIN res' /\ "error" \in DOMAIN res'[idx]
            /\ http' = http /\ attachments' = attachments]_vars

\* C2 witness: an invoice without a transfer key has been refused, and nothing
\* was sent or stored
C2_Witness ==
    /\ epc = "loop" /\ idx = 1
    /\ "error" \in DOMAIN res[1]
    /\ res[1].error.arg = "Apix transfer key missing from company config."
    /\ http["edi"] = <<>> /\ attachments = <<>>

\* C8 (as claimed): no exception leaves _post_invoice_edi, every invoice taken
\* from the batch has its entry in the result, and the call returns one entry
\* per invoice.
C8_BatchNeverAborts ==
    /\ epc # "raised"
    /\ epc = "loop" => DOMAIN res = 1..idx
    /\ epc = "returned" => DOMAIN res = 1..BatchSize


\* C11 (as claimed): the document-level tax list of an exported invoice has
\* exactly one entry per distinct tax applied on the invoice's lines, in order
\* of first appearance, and each entry's base amount and tax amount are the
\* sums of the per-line base and tax amounts over the lines that use the tax.
C11_TaxAggregation ==
    template_values # <<>> =>
        LET inv == One(invoice)
            results == TaxResults(inv.invoice_line_ids)
            ids == FirstSeen(results)
            tax_details == template_values[1].tax_details
        IN  /\ Len(tax_details) = Len(ids)
            /\ \A i \in 1..Len(ids) :
                 /\ tax_details[i].line.tax_line_id.id = ids[i]
                 /\ tax_details[i].tax_base_amount = SumOf(results, ids[i], "base")
                 /\ tax_details[i].tax_amount = SumOf(results, ids[i], "amount")

\* C14 (as claimed): the attachment _export_finvoice creates after Apix
\* answered OK holds the zip bytes that were sent in the PUT request: it is
\* not empty and equals the data of an upload.
C14_AttachmentHoldsUpload ==
    \A i \in DOMAIN res :
        "success" \in DOMAIN res[i] =>
            LET raw == attachments[res[i].attachment].raw
            IN  /\ raw # <<>>
                /\ \E j \in 1..Len(http["edi"]) : http["edi"][j].data = raw

(***************************************************************************)
(* Claims on the import.                                                   *)
(***************************************************************************)
\* an attachment named apix_in_invoice_<StorageID>.zip on account.move that
\* the caller's transaction sees
PackageExists(p, file) ==
    \E i \in 1..Len(attachments) :
        /\ attachments[i].name = <<"apix_in_invoice_", file.StorageID, ".zip">>
        /\ attachments[i].res_model = "account.move"
        /\ Visible(attachments[i], p)

SkipCase(p) ==
    LET file == files[p][k[p]]
    IN  \/ file.StorageStatus = "NEW"
        \/ filter[p] # "" /\ file.StorageStatus # filter[p]
        \/ PackageExists(p, file)

\* C3: a call of download on a file whose StorageStatus is NEW, or differs
\* from the status filter given, or whose package attachment exists, returns
\* the empty result: no request is sent, no attachment and no invoice are
\* created, nothing is raised.
C3_DownloadSkips ==
    [][\A p \in Callers :
         (/\ pc[p] = "dl_check"
          /\ SkipCase(p)
          /\ <<pc[p], k[p], ci[p]>>' # <<pc[p], k[p], ci[p]>>) =>
            /\ ret'[p] = <<>>
            /\ http' = http
            /\ attachments' = attachments
            /\ invoices' = invoices
            /\ raised'[p] = <<>>
            /\ pc'[p] \notin {"dl_fetch", "raised"}]_vars

\* C3 witness: download called on an UNRECEIVED file with the matching filter
\* has returned empty, without a request, because the package existed
C3_Witness ==
    \E p \in Callers :
        /\ pc[p] = "done" /\ comps[p] = <<>>
        /\ files[p][1].StorageStatus = "UNRECEIVED" /\ filter[p] = "UNRECEIVED"
        /\ PackageExists(p, files[p][1])
        /\ http[p] = <<>> /\ ret[p] = <<>>
        /\ [level |-> "error", event |-> "Apix attachment already exists for this invoice",
            ref |-> files[p][1].StorageID] \in logs

\* the committed package attachments of a StorageID
DurablePackages(sid) ==
    {i \in 1..Len(attachments) :
        /\ attachments[i].committed
        /\ attachments[i].name = <<"apix_in_invoice_", sid, ".zip">>
        /\ attachments[i].res_model = "account.move"}

\* C4 (as claimed): at most one package attachment and at most one imported
\* invoice is committed per StorageID, whatever the sweeps and calls that ran,
\* one after another or at the same time.
C4_AtMostOncePerStorageID ==
    \A sid \in StorageIDs :
        /\ Cardinality(DurablePackages(sid)) <= 1
        /\ Cardinality({attachments[i].res_id : i \in DurablePackages(sid)} \ {0}) <= 1

\* C5 (as claimed): no authorization failure, unparsable date or number,
\* invalid zip or missing XML entry of one file leaves a sweep.
C5_ImportErrorsStayInTheFile ==
    \A p \in Callers :
        (comps[p] # <<>> /\ pc[p] = "raised") =>
            raised[p][1].type \notin {"UserError", "ValueError", "BadZipFile", "KeyError"}

\* the response is a zip whose entry DocumentName is not well-formed XML
Malformed(r, file) ==
    /\ r.content.zip
    /\ \E i \in 1..Len(r.content.entries) :
          /\ r.content.entries[i].name = file.DocumentName
          /\ ~r.content.entries[i].data.wellformed

\* C6: when the XML of the downloaded package is malformed, download logs
\* the failure with the DocumentID, creates no invoice, has stored the response
\* body as the attachment apix_in_invoice_<StorageID>.zip, returns the empty
\* result without raising, and the sweep goes on with the next file.
C6_MalformedXml ==
    [][\A p \in Callers :
         (/\ pc[p] = "dl_fetch"
          /\ Len(http'[p]) > Len(http[p])
          /\ received'[p] # <<>>
          /\ Malformed(received'[p][1], files[p][k[p]])) =>
            LET file == files[p][k[p]]
            IN  /\ [level |-> "error", event |-> "Could not parse finvoice xml",
                    ref |-> file.DocumentID] \in logs'
                /\ invoices' = invoices
                /\ Len(attachments') = Len(attachments) + 1
                /\ \A i \in 1..Len(attachments) : attachments'[i] = attachments[i]
                /\ attachments'[Len(attachments')].name =
                      <<"apix_in_invoice_", file.StorageID, ".zip">>
                /\ attachments'[Len(attachments')].raw = received'[p][1].content
                /\ ret'[p] = <<>>
                /\ raised'[p] = <<>>
                /\ pc'[p] # "raised"
                /\ k[p] < Len(files[p]) => (pc'[p] = "dl_check" /\ k'[p] = k[p] + 1)]_vars

\* C6 witness: the sweep of the scheduled job is at its second file after the
\* first one's XML was malformed: the package is stored, no invoice exists
C6_Witness ==
    /\ pc["cron"] = "dl_check" /\ k["cron"] = 2
    /\ received["cron"] # <<>> /\ "content" \in DOMAIN received["cron"][1]
    /\ Malformed(received["cron"][1], files["cron"][1])
    /\ [level |-> "error", event |-> "Could not parse finvoice xml", ref |-> "DOC-1"] \in logs
    /\ \E i \in 1..Len(attachments) :
          /\ attachments[i].name = <<"apix_in_invoice_", "1", ".zip">>
          /\ attachments[i].owner = "cron"
          /\ attachments[i].res_id = 0
    /\ invoices = <<>>

\* C7 (as claimed): a list2 response whose /Response/Status is not "OK" makes
\* list_invoice_zips fail with an error carrying the response body, and an
\* "OK" response gives one descriptor per Group.
C7_ListFailureCarriesBody ==
    \A p \in Callers :
        (/\ received[p] # <<>>
         /\ "groups" \in DOMAIN received[p][1]
         /\ XPathStatus(received[p][1].text) # <<>>) =>
            IF XPathStatus(received[p][1].text)[1] = "OK"
            THEN pc[p] # "raised" /\ files[p] = received[p][1].groups
            ELSE pc[p] = "raised" /\ raised[p][1].arg = received[p][1].text

\* the companies whose identifier of the kind is among the texts
CompaniesWith(kind, texts) ==
    {ResCompany[i].id : i \in {j \in 1..Len(ResCompany) :
        \E n \in 1..Len(texts) :
            texts[n] = (IF kind = "ovt"
                        THEN ResCompany[j].partner_id.ahkio_organisation_unit_number
                        ELSE IF kind = "registry" THEN ResCompany[j].company_registry
                        ELSE ResCompany[j].vat)}}

\* the buyer company by the tiers as claimed: either unit number, then the
\* party identifier, then the tax code, then the caller's company
ClaimedCompanies(t, usr) ==
    LET tier1 == CompaniesWith("ovt",
                               t.InvoiceRecipientOrganisationUnitNumber
                                  \o t.BuyerOrganisationUnitNumber)
        tier2 == CompaniesWith("registry", t.BuyerPartyIdentifier)
        tier3 == CompaniesWith("tax", t.BuyerOrganisationTaxCode)
    IN  IF tier1 # {} THEN tier1
        ELSE IF tier2 # {} THEN tier2
        ELSE IF tier3 # {} THEN tier3
        ELSE {usr.company}

\* C9 (as claimed): the invoice is created for the company of the first tier
\* that matches, a BuyerOrganisationUnitNumber matching in tier 1 also when an
\* InvoiceRecipientOrganisationUnitNumber is present and matches no company.
C9_BuyerResolution ==
    (pc["manual"] = "done" /\ tree # <<>>) =>
        invoices[ret["manual"][1]].company_id \in ClaimedCompanies(tree[1], user["manual"])

\* the company _import_finvoice resolves for the caller
ResolvedFor(t, usr) ==
    IF ResolveCompany(t) # <<>> THEN ResolveCompany(t)[1].id ELSE usr.company

\* C10 (as claimed): whenever the resolved company differs from the caller's
\* company the import fails with the authorization error and creates no
\* invoice, whoever the caller is, and every invoice belongs to its caller's
\* company.
C10_EveryCallerRefused ==
    /\ (/\ tree # <<>>
        /\ pc["manual"] \in {"done", "raised"}
        /\ ResolvedFor(tree[1], user["manual"]) # user["manual"].company) =>
            /\ pc["manual"] = "raised"
            /\ raised["manual"][1].type = "UserError"
            /\ invoices = <<>>
    /\ \A i \in 1..Len(invoices) : invoices[i].company_id = user[invoices[i].owner].company

\* C10 (amended): whenever the resolved company differs from the company of a
\* caller who is not the superuser, the import fails with the authorization
\* error and creates no invoice; every invoice belongs to its caller's company
\* or was imported by the superuser.
C10_OthersRefused ==
    /\ (/\ tree # <<>>
        /\ pc["manual"] \in {"done", "raised"}
        /\ ~user["manual"].su
        /\ ResolvedFor(tree[1], user["manual"]) # user["manual"].company) =>
            /\ pc["manual"] = "raised"
            /\ raised["manual"][1].type = "UserError"
            /\ invoices = <<>>
    /\ \A i \in 1..Len(invoices) :
          \/ invoices[i].company_id = user[invoices[i].owner].company
          \/ user[invoices[i].owner].su

\* C10 witness: a user of company 1 who is not the superuser was refused a
\* document of company 2, and no invoice exists
C10_Witness ==
    /\ tree # <<>>
    /\ pc["manual"] = "raised"
    /\ raised["manual"][1].type = "UserError"
    /\ user["manual"] = [company |-> 1, su |-> FALSE]
    /\ ResolvedFor(tree[1], user["manual"]) = 2
    /\ invoices = <<>>

\* the records of p that belong to a successful download: the invoices and
\* the attachments linked to an invoice
Linked(table) == SelectSeq(table, LAMBDA a : a.res_id # 0)

\* C12: within a sweep the files are taken one at a time in list order; when a
\* caller sends a request, every invoice and every linked attachment it wrote
\* for an earlier file is committed; and a crash of the caller, also while a
\* file is being fetched, removes no invoice and no linked attachment.
C12_CommittedBeforeNextRequest ==
    [][\A p \in Callers :
         /\ Len(http'[p]) > Len(http[p]) =>
              /\ Len(http'[p]) = Len(http[p]) + 1
              /\ \A i \in 1..Len(invoices) :
                   invoices[i].owner = p => invoices[i].committed
              /\ \A i \in 1..Len(attachments) :
                   (attachments[i].owner = p /\ attachments[i].res_id # 0)
                       => attachments[i].committed
              /\ pc[p] = "dl_fetch" =>
                   http'[p][Len(http'[p])].params[2] = <<"SID", files[p][k[p]].StorageID>>
         /\ pc[p] \in {"dl_check", "dl_fetch"} => k'[p] \in {k[p], k[p] + 1}
         /\ (pc'[p] = "crashed" /\ pc[p] # "crashed") =>
              /\ invoices' = invoices
              /\ Linked(attachments') = Linked(attachments)
      ]_vars

\* a sweep crashed while its second file was being fetched, after the first
\* one was imported
C12_Witness ==
    \E p \in Callers :
        /\ pc[p] = "crashed" /\ comps[p] # <<>> /\ k[p] = 2
        /\ Len(http[p]) >= 3
        /\ \E i \in 1..Len(invoices) : invoices[i].owner = p /\ invoices[i].committed

\* the shared secret of the request that caller c is about to send: the
\* company's transfer key for an upload or a list, the file's storage key for
\* a download
Secret(c) ==
    IF c = "edi" THEN One(invoice).company_id.ahkio_apix_transfer_key
    ELSE IF pc[c] = "list" THEN comps[c][ci[c]].ahkio_apix_transfer_key
    ELSE files[c][k[c]].StorageKey

\* the parameter names of that request, in declared order
DeclaredKeys(c) ==
    IF c = "edi" THEN <<"soft", "ver", "TraID", "t", "d">>
    ELSE IF pc[c] = "list" THEN <<"TraID", "t", "d">>
    ELSE <<"markreceived", "SID", "t", "d">>

\* C13: every upload, list and download request carries exactly its declared
\* parameters, none of the transmitted values is the shared secret, and d is
\* the digest over the other values in declared order followed by the secret.
C13_SecretOnlyInDigest ==
    [][\A c \in DOMAIN http :
         Len(http'[c]) > Len(http[c]) =>
            LET req == http'[c][Len(http'[c])]
                n == Len(req.params)
                others == SubSeq(req.params, 1, n - 1)
            IN  /\ Keys(req.params) = DeclaredKeys(c)
                /\ Secret(c) # ""
                /\ \A i \in 1..Len(others) : others[i][2] # Secret(c)
                /\ req.params[n][2] = [prefix |-> "SHA-256:",
                                       sha256_of |-> Append(Values(others), Secret(c))]
      ]_vars

\* a sweep has sent a list request and then a download request, each with a
\* digest that ends with its own secret
C13_Witness ==
    \E p \in Callers :
        /\ Len(http[p]) >= 2
        /\ Keys(http[p][1].params) = <<"TraID", "t", "d">>
        /\ Keys(http[p][2].params) = <<"markreceived", "SID", "t", "d">>
        /\ http[p][1].params[3][2].sha256_of[3] \in {"KEY-1", "KEY-2"}
        /\ http[p][2].params[4][2].sha256_of[4] = "SK-" \o http[p][2].params[2][2]

(***************************************************************************)
(* Initial states.                                                         *)
(***************************************************************************)
InitShared ==
    /\ apix_env \in {"test", "production"}
    /\ http = [p \in Callers \cup {"edi"} |-> <<>>]
    /\ attachments = <<>>
    /\ logs = {}

ExportIdle ==
    /\ epc = "idle"
    /\ idx = 0
    /\ invoice = {}
    /\ res = <<>>
    /\ temp_zip_file = NoFile
    /\ response = <<>>
    /\ template_values = <<>>
    /\ eraised = <<>>

ImportIdle ==
    /\ pc = <<>>
    /\ user = <<>>
    /\ comps = <<>>
    /\ ci = <<>>
    /\ files = <<>>
    /\ k = <<>>
    /\ filter = <<>>
    /\ ret = <<>>
    /\ raised = <<>>
    /\ invoices = <<>>
    /\ storage = <<>>
    /\ received = <<>>
    /\ tree = <<>>

\* _validate_required_fields called on any invoice
InitValidate ==
    /\ InitShared
    /\ ImportIdle
    /\ epc = "call_validate"
    /\ idx = 1
    /\ invoice \in {{[name |-> InvoiceName(1)] @@ inv} : inv \in AllInvoices}
    /\ res = <<>>
    /\ temp_zip_file = NoFile
    /\ response = <<>>
    /\ template_values = <<>>
    /\ eraised = <<>>

NextValidate == ValidateCall

SpecValidate == InitValidate /\ [][NextValidate]_vars

\* _post_invoice_edi called on a batch of BatchSize invoices
InitExport ==
    /\ InitShared
    /\ ImportIdle
    /\ epc = "loop"
    /\ idx = 0
    /\ invoice = {}
    /\ res = <<>>
    /\ temp_zip_file = NoFile
    /\ response = <<>>
    /\ template_values = <<>>
    /\ eraised = <<>>

NextExport ==
    \/ PostNext
    \/ ExportValidate
    \/ ExportBuild
    \/ ExportPut
    \/ ExportResponse

SpecExport == InitExport /\ [][NextExport]_vars

\* an invoice with every mandatory field set
ValidInvoice == CHOOSE inv \in AllInvoices : EmptyFields(inv) = {} /\ ~HasShipping(inv)

\* _export_finvoice rendering a valid invoice with any lines
InitTaxes ==
    /\ InitShared
    /\ ImportIdle
    /\ epc = "build"
    /\ idx = 1
    /\ invoice \in {{[name |-> InvoiceName(1)] @@ t @@ ValidInvoice} : t \in TaxedInvoices}
    /\ res = <<>>
    /\ temp_zip_file = NoFile
    /\ response = <<>>
    /\ template_values = <<>>
    /\ eraised = <<>>

NextTaxes == ExportBuild

SpecTaxes == InitTaxes /\ [][NextTaxes]_vars

\* the callers at rest, Apix holding MaxFiles files
InitImport ==
    /\ InitShared
    /\ ExportIdle
    /\ pc = [p \in Callers |-> "idle"]
    /\ user = [p \in Callers |-> CHOOSE u \in CallerUsers(p) : TRUE]
    /\ comps = [p \in Callers |-> <<>>]
    /\ ci = [p \in Callers |-> 0]
    /\ files = [p \in Callers |-> <<>>]
    /\ k = [p \in Callers |-> 0]
    /\ filter = [p \in Callers |-> ""]
    /\ ret = [p \in Callers |-> <<>>]
    /\ raised = [p \in Callers |-> <<>>]
    /\ invoices = <<>>
    /\ \E st \in [StorageIDs -> {"NEW", "UNRECEIVED"}] :
         storage = [sid \in StorageIDs |-> [status |-> st[sid], company |-> FileCompany(sid)]]
    /\ received = [p \in Callers |-> <<>>]
    /\ tree = <<>>

NextImport ==
    \E p \in Callers :
        \/ p = "cron" /\ StartSweep(p)
        \/ p = "manual" /\ StartCompanySweep(p)
        \/ p = "manual" /\ StartDownload(p)
        \/ ListInvoiceZips(p)
        \/ DownloadCheck(p)
        \/ DownloadFetch(p)

SpecImport == InitImport /\ [][NextImport]_vars

\* _import_finvoice called by any user on any document
InitResolve ==
    /\ InitShared
    /\ ExportIdle
    /\ pc = [p \in {"manual"} |-> "import"]
    /\ user \in [{"manual"} -> [company : CompanyIds, su : BOOLEAN]]
    /\ comps = [p \in {"manual"} |-> <<>>]
    /\ ci = [p \in {"manual"} |-> 0]
    /\ files = [p \in {"manual"} |-> <<>>]
    /\ k = [p \in {"manual"} |-> 0]
    /\ filter = [p \in {"manual"} |-> ""]
    /\ ret = [p \in {"manual"} |-> <<>>]
    /\ raised = [p \in {"manual"} |-> <<>>]
    /\ invoices = <<>>
    /\ storage = <<>>
    /\ received = [p \in {"manual"} |-> <<>>]
    /\ tree \in {<<t>> : t \in Trees}

NextResolve == ImportCall("manual")

SpecResolve == InitResolve /\ [][NextResolve]_vars

\* the callers before or after their work
CallersAt(at) ==
    /\ pc = [p \in Callers |-> at]
    /\ user = [p \in Callers |-> CHOOSE u \in CallerUsers(p) : TRUE]
    /\ comps = [p \in Callers |-> <<>>]
    /\ ci = [p \in Callers |-> 0]
    /\ files = [p \in Callers |-> <<>>]
    /\ k = [p \in Callers |-> 0]
    /\ filter = [p \in Callers |-> ""]
    /\ ret = [p \in Callers |-> <<>>]
    /\ raised = [p \in Callers |-> <<>>]
    /\ invoices = <<>>
    /\ received = [p \in Callers |-> <<>>]
    /\ tree = <<>>

\* the module as a whole: an export batch is about to run, or the callers of
\* the import are about to; a caller's process may die
InitApix ==
    /\ InitShared
    /\ \/ /\ epc = "loop"
          /\ idx = 0
          /\ invoice = {}
          /\ res = <<>>
          /\ temp_zip_file = NoFile
          /\ response = <<>>
          /\ template_values = <<>>
          /\ eraised = <<>>
          /\ CallersAt("done")
          /\ storage = [sid \in StorageIDs |-> [status |-> "NEW", company |-> FileCompany(sid)]]
       \/ /\ ExportIdle
          /\ CallersAt("idle")
          /\ \E st \in [StorageIDs -> {"NEW", "UNRECEIVED"}] :
               storage = [sid \in StorageIDs |->
                            [status |-> st[sid], company |-> FileCompany(sid)]]

NextApix ==
    \/ NextExport
    \/ NextImport
    \/ \E p \in Callers : Crash(p)

SpecApix == InitApix /\ [][NextApix]_vars

====
